---- MODULE Spec2Model ----
(***************************************************************************)
(* PSP34 non-fungible token ledger (Cardinal-Cryptography/PSP34).          *)
(*                                                                         *)
(* The model follows src/data.rs (PSP34Data: approve, transfer, mint,      *)
(* burn, allowance) and src/balances.rs (the two balance_manager modules:  *)
(* the counting one, built without the "enumerable" feature, and the       *)
(* enumerable one).  Every ledger operation is a pure operator from a      *)
(* ledger value to a ledger value, a result and an event list; an action   *)
(* of the state machine applies one operator with arguments drawn from     *)
(* small sets and records the call in the history variable `call`.         *)
(***************************************************************************)
EXTENDS Integers, Sequences, FiniteSets, TLC

\* ------------------------------------------------------------------------
\* Bounds of the model
\* ------------------------------------------------------------------------

\* Every sequence of at most MaxCalls calls is explored, failed calls included.
MaxCalls == 3

\* The longest Vec<Id> the checks of Balances::_remove start from.
MaxLen == 3

\* ------------------------------------------------------------------------
\* Values
\* ------------------------------------------------------------------------

\* Option::None of an Option<AccountId>.
None == "None"

\* Option::None of an Option<Id>.
NoId == 0

Accounts == {"alice", "bob", "charlie"}

\* The token ids the calls of the model name: Id::U8(1) and Id::U8(2).
Ids == {1, 2}

\* The account that holds tokens with ids outside Ids in the initial state
\* that starts next to the counters' maxima.
Holder == "charlie"

\* ------------------------------------------------------------------------
\* Fixed-width unsigned integers.
\*
\* 2^32-1 and 2^128-1 are beyond the integers of the model checker, so a
\* number is written as an offset from one of three reference points:
\*   [base |-> "0", off |-> n]         is n
\*   [base |-> "U32_MAX", off |-> n]   is 2^32-1 + n
\*   [base |-> "U128_MAX", off |-> n]  is 2^128-1 + n
\* Offsets stay within a few units of the reference point, so two numbers are
\* equal exactly when their records are, and the operations below are the
\* machine operations of the u32 and u128 counters.
\* ------------------------------------------------------------------------

Num(n) == [base |-> "0", off |-> n]

U32_MAX == [base |-> "U32_MAX", off |-> 0]

U128_MAX == [base |-> "U128_MAX", off |-> 0]

\* The None of checked_add.
Overflow == [base |-> "overflow", off |-> 0]

\* n + k and n - k for a small natural k, without a width.
Plus(n, k) == [n EXCEPT !.off = @ + k]

\* u32::wrapping_add(1)
wrapping_add_u32(n) == IF n = U32_MAX THEN Num(0) ELSE Plus(n, 1)

\* u32::checked_add(1)
checked_add_u32(n) == IF n = U32_MAX THEN Overflow ELSE Plus(n, 1)

\* u128::checked_add(1)
checked_add_u128(n) == IF n = U128_MAX THEN Overflow ELSE Plus(n, 1)

\* `from_balance == 0`
is_zero(n) == n = Num(0)

\* `from_balance <= 1`
le_one(n) == n.base = "0" /\ n.off <= 1

\* `from_balance - 1` on a u32 that is not 0.
sub_one_u32(n) == Plus(n, -1)

\* `total_supply -= 1` on the u128 supply.  On 0 a build without overflow
\* checks wraps to 2^128-1 and a build with them traps; burn is the only
\* caller and runs it only after it has found a token.
sub_one_u128(n) == IF n = Num(0) THEN U128_MAX ELSE Plus(n, -1)

\* ------------------------------------------------------------------------
\* ink::storage::Mapping as a function with a finite domain
\* ------------------------------------------------------------------------

EmptyMap == [x \in {} |-> None]

MapInsert(m, k, val) ==
    [x \in (DOMAIN m) \cup {k} |-> IF x = k THEN val ELSE m[x]]

MapRemove(m, k) == [x \in (DOMAIN m) \ {k} |-> m[x]]

MapContains(m, k) == k \in DOMAIN m

\* ------------------------------------------------------------------------
\* src/balances.rs: balance_manager::Balances
\*
\* A Balances value of the counting build is a record with the fields
\* owned_tokens_count and total_supply; one of the enumerable build is a
\* record with the single field enumerable, a Mapping from Option<AccountId>
\* (an account, or None for the list of all tokens) to a Vec<Id>.
\* ------------------------------------------------------------------------

IsEnumerable(b) == "enumerable" \in DOMAIN b

\* Vec::remove(pos): the elements behind pos move one place to the front.
ordered_remove(values, pos) ==
    [i \in 1 .. (Len(values) - 1) |->
        IF i < pos THEN values[i] ELSE values[i + 1]]

\* Vec::swap_remove(pos): the last element takes position pos.
swap_remove(values, pos) ==
    [i \in 1 .. (Len(values) - 1) |->
        IF i = pos THEN values[Len(values)] ELSE values[i]]

\* Iterator::position(|v| v == value), 1-based; 0 stands for None.
position(values, value) ==
    IF \E i \in 1 .. Len(values) : values[i] = value
    THEN CHOOSE i \in 1 .. Len(values) :
            /\ values[i] = value
            /\ \A j \in 1 .. (i - 1) : values[j] # value
    ELSE 0

\* Balances::_get_value (index is 0-based, as in the source).
_get_value(b, key, index) ==
    IF MapContains(b.enumerable, key) /\ index < Len(b.enumerable[key])
    THEN b.enumerable[key][index + 1]
    ELSE NoId

\* Balances::_insert
_insert(b, key, value) ==
    LET values == IF MapContains(b.enumerable, key)
                  THEN b.enumerable[key] ELSE << >>
    IN  [b EXCEPT !.enumerable = MapInsert(@, key, Append(values, value))]

\* Balances::_remove
_remove(b, key, value) ==
    IF MapContains(b.enumerable, key)
    THEN LET values == b.enumerable[key]
             pos == position(values, value)
         IN  IF pos # 0
             THEN [b EXCEPT !.enumerable =
                      MapInsert(@, key, swap_remove(values, pos))]
             ELSE b
    ELSE b

\* Balances::_count
_count(b, key) ==
    IF MapContains(b.enumerable, key) THEN Len(b.enumerable[key]) ELSE 0

\* Balances::balance_of of the counting build.
balance_of_counting(b, owner) ==
    IF MapContains(b.owned_tokens_count, owner)
    THEN b.owned_tokens_count[owner]
    ELSE Num(0)

\* Balances::balance_of of the enumerable build: `_count(..) as u32`; a list
\* of the model is far shorter than 2^32, so the cast changes nothing.
balance_of_enumerable(b, owner) == Num(_count(b, owner))

\* Balances::balance_of of the build the ledger was made with.
balance_of_b(b, owner) ==
    IF IsEnumerable(b)
    THEN balance_of_enumerable(b, owner)
    ELSE balance_of_counting(b, owner)

\* Balances::total_supply of the build the ledger was made with.
total_supply_b(b) ==
    IF IsEnumerable(b) THEN Num(_count(b, None)) ELSE b.total_supply

BalanceExceeded == "Custom(Max PSP34 balance exceeded. Max balance limited to 2^32-1.)"

SupplyExceeded == "Custom(Max PSP34 supply exceeded. Max supply limited to 2^128-1.)"

\* Balances::increase_balance of the counting build.  The result carries the
\* Balances value the call leaves behind together with Ok or the error: the
\* owner's counter is stored before the supply is checked.
increase_balance_counting(b, owner, id, increase_supply) ==
    LET to_balance == checked_add_u32(balance_of_counting(b, owner))
    IN  IF to_balance = Overflow
        THEN [balance |-> b, res |-> BalanceExceeded]
        ELSE LET b1 == [b EXCEPT !.owned_tokens_count =
                           MapInsert(@, owner, to_balance)]
             IN  IF increase_supply
                 THEN IF checked_add_u128(b1.total_supply) = Overflow
                      THEN [balance |-> b1, res |-> SupplyExceeded]
                      ELSE [balance |->
                               [b1 EXCEPT !.total_supply = checked_add_u128(@)],
                            res |-> "Ok"]
                 ELSE [balance |-> b1, res |-> "Ok"]

\* Balances::increase_balance of the enumerable build.
increase_balance_enumerable(b, owner, id, increase_supply) ==
    LET b1 == _insert(b, owner, id)
    IN  [balance |-> IF increase_supply THEN _insert(b1, None, id) ELSE b1,
         res |-> "Ok"]

\* Balances::increase_balance of the build the ledger was made with.
increase_balance(b, owner, id, increase_supply) ==
    IF IsEnumerable(b)
    THEN increase_balance_enumerable(b, owner, id, increase_supply)
    ELSE increase_balance_counting(b, owner, id, increase_supply)

\* decrease_balance of the counting build that subtracts without looking at
\* the counter first.
decrease_balance_counting_unguarded(b, owner, id, decrease_supply) ==
    LET from_balance == balance_of_counting(b, owner)
        b1 == [b EXCEPT !.owned_tokens_count =
                  MapInsert(@, owner, sub_one_u32(from_balance))]
    IN  IF decrease_supply
        THEN [b1 EXCEPT !.total_supply = sub_one_u128(@)]
        ELSE b1

\* decrease_balance of the counting build with the supply left as it was.
decrease_balance_counting_keeps_supply(b, owner, id, decrease_supply) ==
    LET from_balance == balance_of_counting(b, owner)
    IN  IF le_one(from_balance)
        THEN [b EXCEPT !.owned_tokens_count = MapRemove(@, owner)]
        ELSE [b EXCEPT !.owned_tokens_count =
                 MapInsert(@, owner, sub_one_u32(from_balance))]

\* Balances::decrease_balance of the counting build.
decrease_balance_counting(b, owner, id, decrease_supply) ==
    LET from_balance == balance_of_counting(b, owner)
        b1 == IF le_one(from_balance)
              THEN [b EXCEPT !.owned_tokens_count = MapRemove(@, owner)]
              ELSE [b EXCEPT !.owned_tokens_count =
                       MapInsert(@, owner, sub_one_u32(from_balance))]
    IN  IF decrease_supply
        THEN [b1 EXCEPT !.total_supply = sub_one_u128(@)]
        ELSE b1

\* decrease_balance of the enumerable build that leaves the list of all
\* tokens as it was.
decrease_balance_enumerable_keeps_all(b, owner, id, decrease_supply) ==
    LET b1 == _remove(b, owner, id)
    IN  IF balance_of_enumerable(b1, owner) = Num(0)
        THEN [b1 EXCEPT !.enumerable = MapRemove(@, owner)]
        ELSE b1

\* Balances::decrease_balance of the enumerable build.
decrease_balance_enumerable(b, owner, id, decrease_supply) ==
    LET b1 == _remove(b, owner, id)
        b2 == IF balance_of_enumerable(b1, owner) = Num(0)
              THEN [b1 EXCEPT !.enumerable = MapRemove(@, owner)]
              ELSE b1
    IN  IF decrease_supply THEN _remove(b2, None, id) ELSE b2

\* Balances::decrease_balance of the build the ledger was made with.
decrease_balance(b, owner, id, decrease_supply) ==
    IF IsEnumerable(b)
    THEN decrease_balance_enumerable(b, owner, id, decrease_supply)
    ELSE decrease_balance_counting(b, owner, id, decrease_supply)

\* Balances::owners_token_by_index (enumerable build).
owners_token_by_index_b(b, owner, index) ==
    LET val == _get_value(b, owner, index)
    IN  IF val = NoId THEN [res |-> "TokenNotExists", id |-> NoId]
        ELSE [res |-> "Ok", id |-> val]

\* Balances::token_by_index (enumerable build).
token_by_index_b(b, index) ==
    LET val == _get_value(b, None, index)
    IN  IF val = NoId THEN [res |-> "TokenNotExists", id |-> NoId]
        ELSE [res |-> "Ok", id |-> val]

\* ------------------------------------------------------------------------
\* src/data.rs: PSP34Data
\*
\* A ledger value d is a record with the fields of the struct:
\*   token_owner         Mapping<Id, AccountId>
\*   operator_approvals  the set of keys (owner, operator, Option<Id>) of the
\*                       Mapping to ()
\*   balance             Balances
\* A mutating method is an operator that returns
\*   [data |-> the ledger the call leaves behind,
\*    res |-> "Ok" or the error, events |-> the returned Vec<PSP34Event>].
\* ------------------------------------------------------------------------

TransferEvent(from, to, id) ==
    [type |-> "Transfer", from |-> from, to |-> to, id |-> id]

ApprovalEvent(owner, operator, id, approved) ==
    [type |-> "Approval", owner |-> owner, operator |-> operator,
     id |-> id, approved |-> approved]

CannotRevoke == "Custom(Cannot revoke approval for a single token, when the operator has approval for all tokens.)"

Err(d, e) == [data |-> d, res |-> e, events |-> << >>]

Ok(d, ev) == [data |-> d, res |-> "Ok", events |-> ev]

\* PSP34Data::total_supply
total_supply(d) == total_supply_b(d.balance)

\* PSP34Data::balance_of
balance_of(d, owner) == balance_of_b(d.balance, owner)

\* PSP34Data::owner_of; None when the id has no entry.
owner_of(d, id) ==
    IF MapContains(d.token_owner, id) THEN d.token_owner[id] ELSE None

\* allowance that takes an approval for any one id as a blanket approval.
allowance_for_any_id(d, owner, operator, id) ==
    \E i \in Ids \cup {NoId} : <<owner, operator, i>> \in d.operator_approvals

\* allowance that looks up the operator's approvals whoever granted them.
allowance_of_any_owner(d, owner, operator, id) ==
    \E o \in Accounts :
        \/ <<o, operator, NoId>> \in d.operator_approvals
        \/ id # NoId /\ <<o, operator, id>> \in d.operator_approvals

\* PSP34Data::allowance; id = NoId is the call with id: None.
allowance(d, owner, operator, id) ==
    \/ <<owner, operator, NoId>> \in d.operator_approvals
    \/ id # NoId /\ <<owner, operator, id>> \in d.operator_approvals

\* PSP34Data::collection_id: Id::Bytes of the 32 bytes of account_id.
collection_id(d, account_id) == [bytes |-> account_id]

\* The ledger's own address, self.env().account_id().
LedgerAddress == "ledger"

\* Token::collection_id (src/lib.rs): the message passes self.env().caller().
Token_collection_id(d, caller) == collection_id(d, caller)

\* approve that checks the caller before the self-approval.
approve_checks_caller_first(d, caller, operator, id, approved) ==
    LET owner == owner_of(d, id)
        granter == IF id # NoId THEN owner ELSE caller
    IN  IF id # NoId /\ owner = None
        THEN Err(d, "TokenNotExists")
        ELSE IF id # NoId /\ owner # caller /\ ~allowance(d, owner, caller, NoId)
        THEN Err(d, "NotApproved")
        ELSE IF id # NoId /\ approved /\ owner = operator
        THEN Err(d, "SelfApprove")
        ELSE IF id # NoId /\ ~approved /\ allowance(d, owner, operator, NoId)
        THEN Err(d, CannotRevoke)
        ELSE Ok([d EXCEPT !.operator_approvals =
                    IF approved
                    THEN @ \cup {<<granter, operator, id>>}
                    ELSE @ \ {<<granter, operator, id>>}],
                <<ApprovalEvent(granter, operator, id, approved)>>)

\* approve that lets a specific-id approval be revoked under a blanket one.
approve_without_revoke_check(d, caller, operator, id, approved) ==
    LET owner == owner_of(d, id)
        granter == IF id # NoId THEN owner ELSE caller
    IN  IF id # NoId /\ owner = None
        THEN Err(d, "TokenNotExists")
        ELSE IF id # NoId /\ approved /\ owner = operator
        THEN Err(d, "SelfApprove")
        ELSE IF id # NoId /\ owner # caller /\ ~allowance(d, owner, caller, NoId)
        THEN Err(d, "NotApproved")
        ELSE Ok([d EXCEPT !.operator_approvals =
                    IF approved
                    THEN @ \cup {<<granter, operator, id>>}
                    ELSE @ \ {<<granter, operator, id>>}],
                <<ApprovalEvent(granter, operator, id, approved)>>)

\* approve that records the caller as the granter of a specific-id approval.
approve_records_caller(d, caller, operator, id, approved) ==
    LET owner == owner_of(d, id)
    IN  IF id # NoId /\ owner = None
        THEN Err(d, "TokenNotExists")
        ELSE IF id # NoId /\ approved /\ owner = operator
        THEN Err(d, "SelfApprove")
        ELSE IF id # NoId /\ owner # caller /\ ~allowance(d, owner, caller, NoId)
        THEN Err(d, "NotApproved")
        ELSE IF id # NoId /\ ~approved /\ allowance(d, owner, operator, NoId)
        THEN Err(d, CannotRevoke)
        ELSE Ok([d EXCEPT !.operator_approvals =
                    IF approved
                    THEN @ \cup {<<caller, operator, id>>}
                    ELSE @ \ {<<caller, operator, id>>}],
                <<ApprovalEvent(caller, operator, id, approved)>>)

\* approve whose blanket call also drops the granter's specific-id approvals
\* of the operator.
approve_blanket_drops_specific(d, caller, operator, id, approved) ==
    LET owner == owner_of(d, id)
        granter == IF id # NoId THEN owner ELSE caller
        kept == IF id = NoId
                THEN d.operator_approvals \ {<<caller, operator, i>> : i \in Ids}
                ELSE d.operator_approvals
    IN  IF id # NoId /\ owner = None
        THEN Err(d, "TokenNotExists")
        ELSE IF id # NoId /\ approved /\ owner = operator
        THEN Err(d, "SelfApprove")
        ELSE IF id # NoId /\ owner # caller /\ ~allowance(d, owner, caller, NoId)
        THEN Err(d, "NotApproved")
        ELSE IF id # NoId /\ ~approved /\ allowance(d, owner, operator, NoId)
        THEN Err(d, CannotRevoke)
        ELSE Ok([d EXCEPT !.operator_approvals =
                    IF approved
                    THEN kept \cup {<<granter, operator, id>>}
                    ELSE kept \ {<<granter, operator, id>>}],
                <<ApprovalEvent(granter, operator, id, approved)>>)

\* PSP34Data::approve
approve(d, caller, operator, id, approved) ==
    LET owner == owner_of(d, id)
        granter == IF id # NoId THEN owner ELSE caller
    IN  IF id # NoId /\ owner = None
        THEN Err(d, "TokenNotExists")
        ELSE IF id # NoId /\ approved /\ owner = operator
        THEN Err(d, "SelfApprove")
        ELSE IF id # NoId /\ owner # caller /\ ~allowance(d, owner, caller, NoId)
        THEN Err(d, "NotApproved")
        ELSE IF id # NoId /\ ~approved /\ allowance(d, owner, operator, NoId)
        THEN Err(d, CannotRevoke)
        ELSE Ok([d EXCEPT !.operator_approvals =
                    IF approved
                    THEN @ \cup {<<granter, operator, id>>}
                    ELSE @ \ {<<granter, operator, id>>}],
                <<ApprovalEvent(granter, operator, id, approved)>>)

\* transfer_token that leaves the caller's approval for the id in place.
transfer_token_keeps_approval(d, owner, caller, to, id) ==
    LET d1 == [d EXCEPT
                 !.balance = decrease_balance(@, owner, id, FALSE),
                 !.token_owner = MapInsert(MapRemove(@, id), id, to)]
        inc == increase_balance(d1.balance, to, id, FALSE)
        d2 == [d1 EXCEPT !.balance = inc.balance]
    IN  IF inc.res # "Ok"
        THEN Err(d2, inc.res)
        ELSE Ok(d2, <<TransferEvent(caller, to, id)>>)

\* transfer that also consumes the caller's blanket approval.
transfer_token_clears_blanket(d, owner, caller, to, id) ==
    LET d1 == [d EXCEPT
                 !.balance = decrease_balance(@, owner, id, FALSE),
                 !.operator_approvals =
                     @ \ {<<owner, caller, id>>, <<owner, caller, NoId>>},
                 !.token_owner = MapInsert(MapRemove(@, id), id, to)]
        inc == increase_balance(d1.balance, to, id, FALSE)
        d2 == [d1 EXCEPT !.balance = inc.balance]
    IN  IF inc.res # "Ok" THEN Err(d2, inc.res)
        ELSE Ok(d2, <<TransferEvent(caller, to, id)>>)

\* PSP34Data::transfer, once the call is authorized: the statements that
\* move the token.  An error of increase_balance is returned after the
\* owner's balance, the approval and token_owner have been written.
transfer_token(d, owner, caller, to, id) ==
    LET d1 == [d EXCEPT
                 !.balance = decrease_balance(@, owner, id, FALSE),
                 !.operator_approvals = @ \ {<<owner, caller, id>>},
                 !.token_owner = MapInsert(MapRemove(@, id), id, to)]
        inc == increase_balance(d1.balance, to, id, FALSE)
        d2 == [d1 EXCEPT !.balance = inc.balance]
    IN  IF inc.res # "Ok"
        THEN Err(d2, inc.res)
        ELSE Ok(d2, <<TransferEvent(caller, to, id)>>)

\* transfer without the `owner == to` shortcut.
transfer_without_self_check(d, caller, to, id) ==
    LET owner == owner_of(d, id)
    IN  IF owner = None
        THEN Err(d, "TokenNotExists")
        ELSE IF owner # caller /\ ~allowance(d, owner, caller, id)
        THEN Err(d, "NotApproved")
        ELSE transfer_token(d, owner, caller, to, id)

\* PSP34Data::transfer
transfer(d, caller, to, id) ==
    LET owner == owner_of(d, id)
    IN  IF owner = None
        THEN Err(d, "TokenNotExists")
        ELSE IF owner = to
        THEN Ok(d, << >>)
        ELSE IF owner # caller /\ ~allowance(d, owner, caller, id)
        THEN Err(d, "NotApproved")
        ELSE transfer_token(d, owner, caller, to, id)

\* mint that increases the balance without the supply.
mint_without_supply(d, account, id) ==
    IF owner_of(d, id) # None
    THEN Err(d, "TokenExists")
    ELSE LET inc == increase_balance(d.balance, account, id, FALSE)
             d1 == [d EXCEPT !.balance = inc.balance]
         IN  IF inc.res # "Ok"
             THEN Err(d1, inc.res)
             ELSE Ok([d1 EXCEPT !.token_owner = MapInsert(@, id, account)],
                     <<TransferEvent(None, account, id)>>)

\* mint without the test for an existing owner.
mint_without_exists_check(d, account, id) ==
    LET inc == increase_balance(d.balance, account, id, TRUE)
        d1 == [d EXCEPT !.balance = inc.balance]
    IN  IF inc.res # "Ok"
        THEN Err(d1, inc.res)
        ELSE Ok([d1 EXCEPT !.token_owner = MapInsert(@, id, account)],
                <<TransferEvent(None, account, id)>>)

\* PSP34Data::mint
mint(d, account, id) ==
    IF owner_of(d, id) # None
    THEN Err(d, "TokenExists")
    ELSE LET inc == increase_balance(d.balance, account, id, TRUE)
             d1 == [d EXCEPT !.balance = inc.balance]
         IN  IF inc.res # "Ok"
             THEN Err(d1, inc.res)
             ELSE Ok([d1 EXCEPT !.token_owner = MapInsert(@, id, account)],
                     <<TransferEvent(None, account, id)>>)

\* burn that tests the authorization before the existence of the id.
burn_checks_caller_first(d, caller, account, id) ==
    IF account # caller /\ ~allowance(d, caller, account, NoId)
    THEN Err(d, "NotApproved")
    ELSE IF owner_of(d, id) = None
    THEN Err(d, "TokenNotExists")
    ELSE Ok([d EXCEPT
               !.balance = decrease_balance(@, account, id, TRUE),
               !.token_owner = MapRemove(@, id)],
            <<TransferEvent(account, None, id)>>)

\* PSP34Data::burn
burn(d, caller, account, id) ==
    IF owner_of(d, id) = None
    THEN Err(d, "TokenNotExists")
    ELSE IF account # caller /\ ~allowance(d, caller, account, NoId)
    THEN Err(d, "NotApproved")
    ELSE Ok([d EXCEPT
               !.balance = decrease_balance(@, account, id, TRUE),
               !.token_owner = MapRemove(@, id)],
            <<TransferEvent(account, None, id)>>)

\* PSP34Data::owners_token_by_index (enumerable build)
owners_token_by_index(d, owner, index) ==
    owners_token_by_index_b(d.balance, owner, index)

\* PSP34Data::token_by_index (enumerable build)
token_by_index(d, index) == token_by_index_b(d.balance, index)

\* ------------------------------------------------------------------------
\* The ledger as a state machine
\* ------------------------------------------------------------------------

VARIABLES
    data,      \* the PSP34Data value
    outside,   \* the tokens with ids outside Ids: how many each account owns
               \* (owned) and how many exist (supply); no call of the model
               \* names such an id, so this never changes
    call,      \* the last call: method, arguments, the ledger before it
               \* (pre), its result (res) and its events
    calls      \* the number of calls made so far

vars == <<data, outside, call, calls>>

NoCall ==
    [op |-> "new", caller |-> None, account |-> None, id |-> NoId,
     approved |-> FALSE, pre |-> EmptyMap, res |-> "Ok", events |-> << >>]

\* Balances::new / Default of the counting build with nothing minted.
NewCounting == [owned_tokens_count |-> EmptyMap, total_supply |-> Num(0)]

\* Balances::new / Default of the enumerable build.
NewEnumerable == [enumerable |-> EmptyMap]

\* PSP34Data::new
NewData(b) ==
    [token_owner |-> EmptyMap, operator_approvals |-> {}, balance |-> b]

NothingOutside == [owned |-> [a \in Accounts |-> Num(0)], supply |-> Num(0)]

\* A counting ledger next to both maxima: 2^128-2 tokens with ids outside Ids
\* exist (one mint below the maximal supply), 2^32-1 of them owned by Holder
\* (a full account) and the others by accounts outside Accounts.
InitNearMax ==
    /\ outside = [owned |-> [a \in Accounts |->
                                IF a = Holder THEN U32_MAX ELSE Num(0)],
                  supply |-> Plus(U128_MAX, -1)]
    /\ data = NewData([owned_tokens_count |->
                           MapInsert(EmptyMap, Holder, U32_MAX),
                       total_supply |-> Plus(U128_MAX, -1)])

Init ==
    /\ call = NoCall
    /\ calls = 0
    /\ \/ data = NewData(NewCounting) /\ outside = NothingOutside
       \/ data = NewData(NewEnumerable) /\ outside = NothingOutside
       \/ InitNearMax

Step(op, caller, account, id, approved, r) ==
    /\ calls < MaxCalls
    /\ calls' = calls + 1
    /\ data' = r.data
    /\ call' = [op |-> op, caller |-> caller, account |-> account, id |-> id,
                approved |-> approved, pre |-> data, res |-> r.res,
                events |-> r.events]
    /\ UNCHANGED outside

\* mint(account, id)
Mint ==
    \E account \in Accounts, id \in Ids :
        Step("mint", None, account, id, FALSE, mint(data, account, id))

\* burn(caller, account, id)
Burn ==
    \E caller \in Accounts, account \in Accounts, id \in Ids :
        Step("burn", caller, account, id, FALSE,
             burn(data, caller, account, id))

\* transfer(caller, to, id, _data); `account` of the call record is `to`.
Transfer ==
    \E caller \in Accounts, to \in Accounts, id \in Ids :
        Step("transfer", caller, to, id, FALSE, transfer(data, caller, to, id))

\* approve(caller, operator, id, approved); `account` of the call record is
\* `operator`, id = NoId is the call with id: None.
Approve ==
    \E caller \in Accounts, operator \in Accounts, id \in Ids \cup {NoId},
       approved \in BOOLEAN :
        Step("approve", caller, operator, id, approved,
             approve(data, caller, operator, id, approved))

Next == Mint \/ Burn \/ Transfer \/ Approve

Spec == Init /\ [][Next]_vars

\* ------------------------------------------------------------------------
\* Properties
\* ------------------------------------------------------------------------

\* The number of ids whose owner_of is o, the ids outside Ids included.
TokensOwnedBy(d, o) ==
    Plus(outside.owned[o], Cardinality({id \in Ids : owner_of(d, id) = o}))

\* The number of ids present in the ownership record.
TokensPresent(d) ==
    Plus(outside.supply, Cardinality({id \in Ids : owner_of(d, id) # None}))

SameBalances(d1, d2) ==
    \A a \in Accounts : balance_of(d1, a) = balance_of(d2, a)

\* The owner of the last call's id before the call.
PreOwner == owner_of(call.pre, call.id)

\* The ledger value of this state is a new one: the state is initial or the
\* last call changed the ledger.  A property of the ledger value alone
\* (what each call would do on it) is examined in these states only: a
\* state whose last call left the ledger as it was has the ledger value of
\* the state before that call, which was examined then.
FreshLedger == call = NoCall \/ data # call.pre

\* C1: in every reachable state, for every account o, balance_of(o) is the
\* number of ids whose owner_of is o (both builds).
C1_BalanceIsOwnedCount ==
    \A o \in Accounts : balance_of(data, o) = TokensOwnedBy(data, o)

\* C2: in every reachable state total_supply() is the number of ids present
\* in the ownership record.
C2_SupplyIsTokenCount == total_supply(data) = TokensPresent(data)

\* C2 witness: a burn in the name of an account that is not the owner has
\* succeeded and another token is still present.
C2_Witness ==
    /\ call.op = "burn" /\ call.res = "Ok"
    /\ PreOwner # call.account
    /\ \E id \in Ids : owner_of(data, id) # None

\* C3: a call that returns an error leaves the whole ledger as it was.
C3_FailedCallLeavesLedger == call.res # "Ok" => data = call.pre

\* C4: a burn of an existing id by a caller that is neither its owner nor a
\* blanket-approved operator of its owner fails with NotApproved and changes
\* nothing.
C4_BurnNeedsOwnerOrOperator ==
    ( /\ call.op = "burn"
      /\ PreOwner # None
      /\ call.caller # PreOwner
      /\ <<PreOwner, call.caller, NoId>> \notin call.pre.operator_approvals )
    => call.res = "NotApproved" /\ data = call.pre

\* C5: burn(caller, account, id) where account owns id and the caller is
\* account or a blanket-approved operator of account succeeds: the id has no
\* owner afterwards, balance_of(account) and total_supply() are lower by
\* exactly 1, and the event is Transfer{from: account, to: None, id}.
C5_BurnByOwnerOrOperator ==
    ( /\ call.op = "burn"
      /\ PreOwner = call.account
      /\ \/ call.caller = call.account
         \/ <<call.account, call.caller, NoId>> \in call.pre.operator_approvals )
    => /\ call.res = "Ok"
       /\ owner_of(data, call.id) = None
       /\ balance_of(call.pre, call.account)
             = Plus(balance_of(data, call.account), 1)
       /\ total_supply(call.pre) = Plus(total_supply(data), 1)
       /\ call.events = <<TransferEvent(call.account, None, call.id)>>

\* C6: in every reachable state, a transfer of an existing id whose owner is
\* neither the caller nor `to`, by a caller with neither a specific-id nor a
\* blanket approval from the owner, fails with NotApproved and leaves
\* owner_of(id) and every balance unchanged.
C6_TransferNotApproved ==
    FreshLedger =>
    \A caller \in Accounts, to \in Accounts, id \in Ids :
        LET owner == owner_of(data, id)
            r == transfer(data, caller, to, id)
        IN  ( /\ owner # None /\ owner # caller /\ owner # to
              /\ <<owner, caller, id>> \notin data.operator_approvals
              /\ <<owner, caller, NoId>> \notin data.operator_approvals )
            => /\ r.res = "NotApproved"
               /\ owner_of(r.data, id) = owner
               /\ SameBalances(r.data, data)

\* C6 witness: such a transfer was made and failed, while another operator
\* held an approval from the owner.
C6_Witness ==
    /\ call.op = "transfer" /\ call.res = "NotApproved"
    /\ PreOwner \notin {None, call.caller, call.account}
    /\ \E p \in Accounts, i \in {call.id, NoId} :
          <<PreOwner, p, i>> \in call.pre.operator_approvals

\* C7: a successful transfer of a token owned by owner # to makes `to` its
\* owner, lowers balance_of(owner) by exactly 1, raises balance_of(to) by
\* exactly 1 and leaves total_supply(), every other balance and every other
\* token's owner unchanged.
C7_TransferMovesOneToken ==
    \A caller \in Accounts, to \in Accounts, id \in Ids :
        LET owner == owner_of(data, id)
            r == transfer(data, caller, to, id)
        IN  (owner # None /\ owner # to /\ r.res = "Ok")
            => /\ owner_of(r.data, id) = to
               /\ balance_of(data, owner) = Plus(balance_of(r.data, owner), 1)
               /\ balance_of(r.data, to) = Plus(balance_of(data, to), 1)
               /\ total_supply(r.data) = total_supply(data)
               /\ \A a \in Accounts \ {owner, to} :
                     balance_of(r.data, a) = balance_of(data, a)
               /\ \A i \in Ids \ {id} : owner_of(r.data, i) = owner_of(data, i)

\* C8: a successful transfer with to # owner returns exactly one event,
\* Transfer{from, to, id}, whose `from` is the owner before the call.
C8_TransferEventFromOwner ==
    (call.op = "transfer" /\ call.res = "Ok" /\ PreOwner # call.account)
    => call.events = <<TransferEvent(PreOwner, call.account, call.id)>>

C10_TransferConsumesApproval ==
    FreshLedger =>
    \A caller \in Accounts, to \in Accounts, id \in Ids :
        LET owner == owner_of(data, id)
            r == transfer(data, caller, to, id)
        IN  (owner # None /\ owner # to /\ r.res = "Ok")
            => <<owner, caller, id>> \notin r.data.operator_approvals

\* C10 witness: an operator holding a specific-id approval has transferred
\* the token, and the approval is gone.
C10_Witness ==
    /\ call.op = "transfer" /\ call.res = "Ok"
    /\ PreOwner # call.account
    /\ <<PreOwner, call.caller, call.id>> \in call.pre.operator_approvals
    /\ <<PreOwner, call.caller, call.id>> \notin data.operator_approvals

\* C11: in every reachable state every specific-id triple (o, p, id) of the
\* approval set has owner_of(id) = o.
C11_ApprovalsBelongToOwner ==
    \A t \in data.operator_approvals :
        t[3] # NoId => owner_of(data, t[3]) = t[1]

\* C12: in every reachable state, mint of an id that has an owner fails with
\* TokenExists for every account and leaves the ledger as it was.
C12_MintExistingFails ==
    FreshLedger =>
    \A account \in Accounts, id \in Ids :
        LET r == mint(data, account, id)
        IN  owner_of(data, id) # None
            => r.res = "TokenExists" /\ r.data = data /\ r.events = << >>

\* C12 witness: an id owned by one account was minted again to another
\* account, and the call failed.
C12_Witness ==
    /\ call.op = "mint" /\ call.res = "TokenExists"
    /\ PreOwner \notin {None, call.account}
    /\ data = call.pre

\* C13: in every reachable state, mint(account, id) of an id with no owner,
\* with the account's counter and the supply below their maxima, succeeds:
\* account owns the id, balance_of(account) and total_supply() are higher by
\* exactly 1, every other balance and owner is unchanged, and the event is
\* Transfer{from: None, to: account, id}.
C13_MintCreatesToken ==
    FreshLedger =>
    \A account \in Accounts, id \in Ids :
        LET r == mint(data, account, id)
        IN  ( /\ owner_of(data, id) = None
              /\ balance_of(data, account) # U32_MAX
              /\ total_supply(data) # U128_MAX )
            => /\ r.res = "Ok"
               /\ owner_of(r.data, id) = account
               /\ balance_of(r.data, account) = Plus(balance_of(data, account), 1)
               /\ total_supply(r.data) = Plus(total_supply(data), 1)
               /\ \A a \in Accounts \ {account} :
                     balance_of(r.data, a) = balance_of(data, a)
               /\ \A i \in Ids \ {id} : owner_of(r.data, i) = owner_of(data, i)
               /\ r.events = <<TransferEvent(None, account, id)>>

\* C13 witness: a second token was minted to an account that held one.
C13_Witness ==
    /\ call.op = "mint" /\ call.res = "Ok"
    /\ PreOwner = None
    /\ balance_of(call.pre, call.account) = Num(1)
    /\ balance_of(data, call.account) = Num(2)
    /\ owner_of(data, call.id) = call.account

\* C14: in every reachable state, transfer, burn and approve with an id each
\* fail with TokenNotExists on an id that has no owner, for every caller and
\* every other argument, whatever the approvals.
C14_MissingTokenFails ==
    FreshLedger =>
    \A id \in Ids :
        owner_of(data, id) = None
        => \A caller \in Accounts, other \in Accounts :
              /\ transfer(data, caller, other, id).res = "TokenNotExists"
              /\ burn(data, caller, other, id).res = "TokenNotExists"
              /\ \A approved \in BOOLEAN :
                    approve(data, caller, other, id, approved).res
                       = "TokenNotExists"

\* C14 witness: a burn of an id without owner, by a caller that is not the
\* named account and has no approval to or from it, failed with
\* TokenNotExists while another token existed.
C14_Witness ==
    /\ call.op = "burn" /\ call.res = "TokenNotExists"
    /\ call.caller # call.account
    /\ ~allowance(call.pre, call.caller, call.account, NoId)
    /\ ~allowance(call.pre, call.account, call.caller, NoId)
    /\ \E i \in Ids : owner_of(call.pre, i) # None

\* C15: in every reachable state, burn(caller, account, id) with
\* caller # account, where account owns id and the caller holds a specific-id
\* approval for id from account and no blanket approval from it, fails with
\* NotApproved, while a transfer of the id by the same caller is authorized.
C15_SpecificApprovalCannotBurn ==
    \A caller \in Accounts, account \in Accounts, id \in Ids :
        ( /\ caller # account
          /\ owner_of(data, id) = account
          /\ <<account, caller, id>> \in data.operator_approvals
          /\ <<account, caller, NoId>> \notin data.operator_approvals )
        => /\ burn(data, caller, account, id).res = "NotApproved"
           /\ \A to \in Accounts :
                 transfer(data, caller, to, id).res # "NotApproved"

\* C16: in every reachable state, approve(caller, operator, Some(id),
\* approved) on an existing id, not rejected as a self-approval, fails with
\* NotApproved when the caller is not the owner of id and holds no blanket
\* approval from the owner, also when it holds a specific-id approval for id;
\* the approval set is unchanged.
C16_ApproveNeedsOwnerOrOperator ==
    FreshLedger =>
    \A caller \in Accounts, operator \in Accounts, id \in Ids,
       approved \in BOOLEAN :
        LET owner == owner_of(data, id)
            r == approve(data, caller, operator, id, approved)
        IN  ( /\ owner # None
              /\ ~(approved /\ operator = owner)
              /\ caller # owner
              /\ <<owner, caller, NoId>> \notin data.operator_approvals )
            => /\ r.res = "NotApproved"
               /\ r.data.operator_approvals = data.operator_approvals

\* C16 witness: a caller holding only a specific-id approval for the id
\* tried to approve another operator for it and failed.
C16_Witness ==
    /\ call.op = "approve" /\ call.res = "NotApproved"
    /\ call.id # NoId /\ call.approved
    /\ <<PreOwner, call.caller, call.id>> \in call.pre.operator_approvals
    /\ call.account \notin {PreOwner, call.caller}
    /\ data = call.pre

\* C17: in every reachable state, approve(caller, operator, Some(id), true)
\* with operator the current owner of id fails with SelfApprove for every
\* caller, authorized or not, and leaves the ledger unchanged.
C17_SelfApproveFirst ==
    FreshLedger =>
    \A caller \in Accounts, id \in Ids :
        LET owner == owner_of(data, id)
            r == approve(data, caller, owner, id, TRUE)
        IN  owner # None
            => /\ r.res = "SelfApprove"
               /\ r.data = data
               /\ r.events = << >>

\* C17 witness: a caller that is neither the owner nor a blanket-approved
\* operator of the owner named the owner as operator and got SelfApprove.
C17_Witness ==
    /\ call.op = "approve" /\ call.res = "SelfApprove"
    /\ call.approved /\ call.id # NoId
    /\ call.account = PreOwner
    /\ call.caller # PreOwner
    /\ ~allowance(call.pre, PreOwner, call.caller, NoId)
    /\ data = call.pre

\* C18: in every reachable state where operator p holds a blanket approval
\* from o and o owns id, approve(caller, p, Some(id), false) by o or by a
\* blanket-approved operator of o fails with the custom error and leaves the
\* approval set, and the rest of the ledger, unchanged.
C18_RevokeUnderBlanketFails ==
    FreshLedger =>
    \A caller \in Accounts, p \in Accounts, id \in Ids :
        LET o == owner_of(data, id)
            r == approve(data, caller, p, id, FALSE)
        IN  ( /\ o # None
              /\ <<o, p, NoId>> \in data.operator_approvals
              /\ \/ caller = o
                 \/ <<o, caller, NoId>> \in data.operator_approvals )
            => /\ r.res = CannotRevoke
               /\ r.data.operator_approvals = data.operator_approvals
               /\ r.data = data
               /\ r.events = << >>

\* C18 witness: the owner revoked a specific-id approval of an operator that
\* holds its blanket approval; the call failed with the custom error and the
\* blanket approval is still recorded.
C18_Witness ==
    /\ call.op = "approve" /\ call.res = CannotRevoke
    /\ ~call.approved /\ call.id # NoId
    /\ call.caller = PreOwner
    /\ <<PreOwner, call.account, NoId>> \in call.pre.operator_approvals
    /\ <<PreOwner, call.account, NoId>> \in data.operator_approvals
    /\ data.operator_approvals = call.pre.operator_approvals

\* The call just made is a successful approve(A, B, None, v).
BlanketApproveOf(c, A, B) ==
    /\ c.op = "approve" /\ c.res = "Ok" /\ c.id = NoId
    /\ c.caller = A /\ c.account = B

\* C19: for all accounts A and B, allowance(A, B, None) is false before the
\* first call; after every call it is v if the call was a successful
\* approve(A, B, None, v), and otherwise what it was before the call (mint,
\* burn, transfer, specific-id approve, blanket approve of another pair,
\* failed call); and approve(A, B, None, v) succeeds in every state. So
\* allowance(A, B, None) is always the v of the most recent successful
\* approve(A, B, None, v), false if there was none.
C19_BlanketAllowanceIsLastApprove ==
    \A A \in Accounts, B \in Accounts :
        /\ allowance(data, A, B, NoId) =
              IF call = NoCall THEN FALSE
              ELSE IF BlanketApproveOf(call, A, B) THEN call.approved
              ELSE allowance(call.pre, A, B, NoId)
        /\ FreshLedger =>
              \A v \in BOOLEAN :
                 LET r == approve(data, A, B, NoId, v)
                 IN  /\ r.res = "Ok"
                     /\ allowance(r.data, A, B, NoId) = v

\* C19 witness: A revoked a blanket approval of B that was visible; the call
\* succeeded and allowance(A, B, None) is false.
C19_Witness ==
    /\ call.op = "approve" /\ call.res = "Ok"
    /\ call.id = NoId /\ ~call.approved
    /\ allowance(call.pre, call.caller, call.account, NoId)
    /\ ~allowance(data, call.caller, call.account, NoId)

CountingTwin(d) ==
    LET owners == {a \in Accounts : balance_of_enumerable(d.balance, a) # Num(0)}
    IN  [d EXCEPT !.balance =
            [owned_tokens_count |->
                [a \in owners |-> balance_of_enumerable(d.balance, a)],
             total_supply |-> total_supply_b(d.balance)]]

\* owner_of, balance_of, total_supply and allowance answer alike on d1, d2.
SameAnswers(d1, d2) ==
    /\ \A id \in Ids : owner_of(d1, id) = owner_of(d2, id)
    /\ SameBalances(d1, d2)
    /\ total_supply(d1) = total_supply(d2)
    /\ \A o \in Accounts, p \in Accounts, id \in Ids \cup {NoId} :
          allowance(d1, o, p, id) = allowance(d2, o, p, id)

\* The results of one call on the two builds agree.
SameResult(re, rc) ==
    /\ re.res = rc.res
    /\ re.events = rc.events
    /\ SameAnswers(re.data, rc.data)

\* C21: in every reachable state of the enumerable ledger, every mint, burn,
\* transfer and approve call gives the same result and events, and leaves
\* the same owner_of, balance_of, total_supply and allowance answers, as the
\* same call on the counting ledger that answers alike before the call.
C21_StrategiesAgree ==
    IsEnumerable(data.balance) =>
        LET c == CountingTwin(data)
        IN  /\ SameAnswers(data, c)
            /\ \A a \in Accounts, id \in Ids :
                  SameResult(mint(data, a, id), mint(c, a, id))
            /\ \A caller \in Accounts, a \in Accounts, id \in Ids :
                  /\ SameResult(burn(data, caller, a, id), burn(c, caller, a, id))
                  /\ SameResult(transfer(data, caller, a, id),
                                transfer(c, caller, a, id))
            /\ \A caller \in Accounts, a \in Accounts, id \in Ids \cup {NoId},
                  v \in BOOLEAN :
                  SameResult(approve(data, caller, a, id, v),
                             approve(c, caller, a, id, v))

\* The answers token_by_index gives for the indices 0 .. n-1.
IndexedTokens(d, n) == [i \in 1 .. n |-> token_by_index(d, i - 1)]

\* C22: in every reachable state of the enumerable ledger, with
\* n = total_supply(), token_by_index(i) succeeds for 0 <= i < n, no two
\* indices return the same id, the ids returned are exactly the ids present
\* in the ownership record, and token_by_index(n) fails with TokenNotExists.
C22_TokenByIndexEnumerates ==
    IsEnumerable(data.balance) =>
        LET n == total_supply(data).off
            toks == IndexedTokens(data, n)
        IN  /\ total_supply(data).base = "0"
            /\ \A i \in 1 .. n : toks[i].res = "Ok"
            /\ \A i \in 1 .. n, j \in 1 .. n :
                  toks[i].id = toks[j].id => i = j
            /\ {toks[i].id : i \in 1 .. n} =
                  {id \in Ids : owner_of(data, id) # None}
            /\ token_by_index(data, n).res = "TokenNotExists"

\* C22 witness: the first of two minted tokens was burned (the swap-remove
\* moved the other one to index 0) and one token is enumerated.
C22_Witness ==
    /\ IsEnumerable(data.balance)
    /\ call.op = "burn" /\ call.res = "Ok"
    /\ token_by_index(call.pre, 0).id = call.id
    /\ token_by_index(call.pre, 1).res = "Ok"
    /\ token_by_index(data, 0) = token_by_index(call.pre, 1)
    /\ token_by_index(data, 1).res = "TokenNotExists"

\* C23: for every id, a call changes owner_of(id) from None to Some(a) only
\* if it is a successful mint(a, id), from Some(a) to None only if it is a
\* successful burn of id, and from Some(a) to Some(b), b # a, only if it is a
\* successful transfer of id to b; every other call leaves owner_of(id).
C23_OwnerChangesByLifecycle ==
    \A id \in Ids :
        LET old == owner_of(call.pre, id)
            new == owner_of(data, id)
        IN  (call # NoCall /\ old # new) =>
                /\ call.res = "Ok"
                /\ call.id = id
                /\ IF old = None
                   THEN call.op = "mint" /\ call.account = new
                   ELSE IF new = None
                   THEN call.op = "burn"
                   ELSE call.op = "transfer" /\ call.account = new

\* C24: in every reachable state of the counting ledger, an
\* increase_balance(owner, id, true) that fails leaves the owner's counter
\* and the supply as they were.
C24_FailedIncreaseChangesNothing ==
    ~IsEnumerable(data.balance) =>
        \A owner \in Accounts, id \in Ids :
            LET r == increase_balance(data.balance, owner, id, TRUE)
            IN  r.res # "Ok" =>
                   /\ balance_of_b(r.balance, owner) =
                         balance_of_b(data.balance, owner)
                   /\ total_supply_b(r.balance) = total_supply_b(data.balance)

\* C25 as stated: in every reachable state of the counting ledger,
\* increase_balance on an owner whose counter is 2^32-1, and
\* increase_balance with increase_supply on a supply of 2^128-1, fail with
\* the error LimitExceeded.
C25_FailsWithLimitExceeded ==
    ~IsEnumerable(data.balance) =>
        \A owner \in Accounts, id \in Ids, s \in BOOLEAN :
            LET r == increase_balance(data.balance, owner, id, s)
            IN  ( \/ balance_of_b(data.balance, owner) = U32_MAX
                  \/ s /\ total_supply_b(data.balance) = U128_MAX )
                => r.res = "LimitExceeded"

\* C25, amended: in every reachable state of the counting ledger,
\* increase_balance on an owner whose counter is 2^32-1 fails with
\* Custom("Max PSP34 balance exceeded...") and changes nothing; otherwise
\* increase_balance with increase_supply on a supply of 2^128-1 fails with
\* Custom("Max PSP34 supply exceeded..."); and a mint to, or an authorized
\* transfer to, an account whose counter is 2^32-1 returns the first error
\* and leaves that account's counter and the supply as they were.
C25_FailsWithCustomError ==
    (FreshLedger /\ ~IsEnumerable(data.balance)) =>
        /\ \A owner \in Accounts, id \in Ids, s \in BOOLEAN :
              LET r == increase_balance(data.balance, owner, id, s)
              IN  IF balance_of_b(data.balance, owner) = U32_MAX
                  THEN r.res = BalanceExceeded /\ r.balance = data.balance
                  ELSE IF s /\ total_supply_b(data.balance) = U128_MAX
                  THEN r.res = SupplyExceeded
                  ELSE r.res = "Ok"
        /\ \A to \in Accounts, id \in Ids :
              balance_of(data, to) = U32_MAX =>
                 /\ owner_of(data, id) = None =>
                       LET r == mint(data, to, id)
                       IN  /\ r.res = BalanceExceeded
                           /\ r.data = data
                 /\ \A caller \in Accounts :
                       LET owner == owner_of(data, id)
                           r == transfer(data, caller, to, id)
                       IN  ( /\ owner \notin {None, to}
                             /\ \/ caller = owner
                                \/ allowance(data, owner, caller, id) )
                           => /\ r.res = BalanceExceeded
                              /\ balance_of(r.data, to) = U32_MAX
                              /\ total_supply(r.data) = total_supply(data)

\* C25 witness: a mint to the account that owns 2^32-1 tokens was refused
\* with the balance error and left the ledger as it was.
C25_Witness ==
    /\ call.op = "mint" /\ call.res = BalanceExceeded
    /\ balance_of(call.pre, call.account) = U32_MAX
    /\ balance_of(data, call.account) = U32_MAX
    /\ owner_of(data, call.id) = None

\* n is a value of a u32: 0 .. 2^32-1.
InU32(n) ==
    \/ n.base = "0" /\ n.off >= 0
    \/ n.base = "U32_MAX" /\ n.off <= 0

\* n is a value of a u128: 0 .. 2^128-1.
InU128(n) ==
    \/ n.base \in {"0", "U32_MAX"} /\ n.off >= 0
    \/ n.base = "U128_MAX" /\ n.off <= 0

\* Every counter of the counting Balances b is within its width.
CountersInRange(b) ==
    /\ \A a \in DOMAIN b.owned_tokens_count : InU32(b.owned_tokens_count[a])
    /\ InU128(b.total_supply)

\* C26: in every reachable state of the counting ledger every per-owner
\* counter is within 0 .. 2^32-1 and the supply within 0 .. 2^128-1; the
\* supply is the number of tokens present, so it never wrapped; every burn
\* that got to `total_supply -= 1` found a supply of at least 1; and every
\* transfer or burn that got to decrease_balance left the counter of the
\* account it named at 0 when it was 0 or 1 and at one less otherwise.
C26_CountersNeverWrap ==
    ~IsEnumerable(data.balance) =>
        /\ CountersInRange(data.balance)
        /\ total_supply(data) = TokensPresent(data)
        /\ (call.op = "burn" /\ call.res = "Ok") =>
              /\ total_supply(call.pre) # Num(0)
              /\ total_supply(data) = Plus(total_supply(call.pre), -1)
              /\ balance_of(data, call.account) =
                    IF le_one(balance_of(call.pre, call.account))
                    THEN Num(0)
                    ELSE Plus(balance_of(call.pre, call.account), -1)
        /\ (call.op = "transfer" /\ call.res = "Ok" /\ call.events # << >>) =>
              balance_of(data, PreOwner) =
                 IF le_one(balance_of(call.pre, PreOwner))
                 THEN Num(0)
                 ELSE Plus(balance_of(call.pre, PreOwner), -1)

\* C26 witness: on the counting ledger a burn in the name of an account
\* whose counter was 0 succeeded, and that counter is still 0.
C26_Witness ==
    /\ ~IsEnumerable(data.balance)
    /\ call.op = "burn" /\ call.res = "Ok"
    /\ balance_of(call.pre, call.account) = Num(0)
    /\ balance_of(data, call.account) = Num(0)
    /\ total_supply(data) = Plus(total_supply(call.pre), -1)

\* id is in the list the enumerable Balances b keeps for owner.
InOwnersList(b, owner, id) ==
    MapContains(b.enumerable, owner) /\ position(b.enumerable[owner], id) # 0

\* decrease_balance(owner, id, _) is called on d with balance_of(owner) >= 1
\* and, in the enumerable build, with id in the owner's list.
DecreaseIsCovered(d, owner, id) ==
    /\ balance_of(d, owner) # Num(0)
    /\ IsEnumerable(d.balance) => InOwnersList(d.balance, owner, id)

\* C27: in every reachable state, every transfer and burn call that gets to
\* its decrease_balance(owner, id, _) makes it with balance_of(owner) >= 1
\* and, in the enumerable build, with id in that owner's list.  transfer
\* gets there when the id has an owner other than `to` and the caller is
\* authorized; burn when it returns Ok.
C27_DecreaseOnlyOwnedBalance ==
    \A caller \in Accounts, a \in Accounts, id \in Ids :
        /\ LET owner == owner_of(data, id)
           IN  ( /\ owner \notin {None, a}
                 /\ transfer(data, caller, a, id).res # "NotApproved" )
               => DecreaseIsCovered(data, owner, id)
        /\ burn(data, caller, a, id).res = "Ok"
               => DecreaseIsCovered(data, a, id)

\* No entry of the Balances b stands for an owner without tokens.
NoEmptyEntry(b) ==
    IF IsEnumerable(b)
    THEN \A k \in DOMAIN b.enumerable : k # None => Len(b.enumerable[k]) >= 1
    ELSE \A a \in DOMAIN b.owned_tokens_count :
            /\ b.owned_tokens_count[a] # Num(0)
            /\ InU32(b.owned_tokens_count[a])

\* C28: in every reachable state the counting map has an entry for an
\* owner only with a count of at least 1 and the enumerable map has a list
\* for an owner only when the list is not empty.
C28_NoEmptyOwnerEntry == NoEmptyEntry(data.balance)

\* C28 witness: the owner of one token burned it, and the map of its
\* Balances has no entry for that owner any more.
C28_Witness ==
    /\ call.op = "burn" /\ call.res = "Ok"
    /\ call.account = PreOwner
    /\ balance_of(call.pre, call.account) = Num(1)
    /\ IF IsEnumerable(data.balance)
       THEN /\ MapContains(call.pre.balance.enumerable, call.account)
            /\ ~MapContains(data.balance.enumerable, call.account)
       ELSE /\ MapContains(call.pre.balance.owned_tokens_count, call.account)
            /\ ~MapContains(data.balance.owned_tokens_count, call.account)

\* ------------------------------------------------------------------------
\* Balances::decrease_balance of the enumerable build on any list
\*
\* The lists a ledger builds hold each id once.  decrease_balance and
\* _remove are also checked as functions of a Vec<Id>, on every list of at
\* most MaxLen ids of ListIds, repeated ids included.
\* ------------------------------------------------------------------------

\* Id::U8(1), Id::U8(2), Id::U8(3)
ListIds == {1, 2, 3}

\* The account whose list the initial states fill.
ListOwner == "alice"

ListsUpTo(n) == UNION {[1 .. k -> ListIds] : k \in 0 .. n}

\* An enumerable Balances in which ListOwner has the list values; an empty
\* list is never stored, so for it the key is absent.
BalancesWithList(values) ==
    [enumerable |-> IF values = << >> THEN EmptyMap
                    ELSE MapInsert(EmptyMap, ListOwner, values)]

InitLists ==
    /\ call = NoCall
    /\ calls = 0
    /\ outside = NothingOutside
    /\ \E values \in ListsUpTo(MaxLen) :
          data = NewData(BalancesWithList(values))

\* decrease_balance(owner, id, decrease_supply); `approved` of the call
\* record is decrease_supply.
DecreaseBalance ==
    \E owner \in Accounts, id \in ListIds, decrease_supply \in BOOLEAN :
        Step("decrease_balance", None, owner, id, decrease_supply,
             Ok([data EXCEPT !.balance =
                    decrease_balance(@, owner, id, decrease_supply)], << >>))

NextLists == DecreaseBalance

SpecLists == InitLists /\ [][NextLists]_vars

\* The list the enumerable Balances b keeps for owner, empty when absent.
ListOf(b, owner) ==
    IF MapContains(b.enumerable, owner) THEN b.enumerable[owner] ELSE << >>

\* new is old after a swap-remove of the first occurrence of id.
SwapRemovedFirst(old, new, id) ==
    \E p \in 1 .. Len(old) :
        /\ old[p] = id
        /\ \A j \in 1 .. (p - 1) : old[j] # id
        /\ Len(new) = Len(old) - 1
        /\ p <= Len(new) => new[p] = old[Len(old)]
        /\ \A i \in 1 .. Len(new) : i # p => new[i] = old[i]

\* C29: for every list of an owner in the enumerable build, every id and
\* either value of decrease_supply, decrease_balance(owner, id, _) leaves the
\* list unchanged when id is not in it, and otherwise removes the first
\* occurrence of id by swap-remove: the list is shorter by 1, the former
\* last element is at the removed position, every other element keeps its
\* index.  The lists of the other owners are unchanged.
C29_SwapRemoveFirstOccurrence ==
    \A owner \in Accounts, id \in ListIds, s \in BOOLEAN :
        LET old == ListOf(data.balance, owner)
            b == decrease_balance(data.balance, owner, id, s)
            new == ListOf(b, owner)
        IN  /\ IsEnumerable(b)
            /\ IF \E i \in 1 .. Len(old) : old[i] = id
               THEN SwapRemovedFirst(old, new, id)
               ELSE new = old
            /\ \A a \in Accounts \ {owner} :
                  ListOf(b, a) = ListOf(data.balance, a)

\* C29 witness: an id that stood first and once more in a list of three was
\* removed: the former last element is first, the second kept its place,
\* and the list has two elements.
C29_Witness ==
    /\ call.op = "decrease_balance"
    /\ LET old == ListOf(call.pre.balance, call.account)
           new == ListOf(data.balance, call.account)
       IN  /\ Len(old) = 3 /\ Len(new) = 2
           /\ old[1] = call.id /\ old[2] = call.id /\ old[3] # call.id
           /\ new = <<old[3], old[2]>>

\* C30: in every reachable state, collection_id() returns the same Id for
\* every caller, the Id derived from the ledger's own address.
C30_CollectionIdIsStable ==
    \A c1 \in Accounts, c2 \in Accounts :
        /\ Token_collection_id(data, c1) = Token_collection_id(data, c2)
        /\ Token_collection_id(data, c1) = collection_id(data, LedgerAddress)

\* C31: every burn(caller, account, id) that succeeded named the owner of
\* id as account: its Transfer event has the owner before the call as
\* `from`, and the balance it lowered is that owner's.
C31_BurnOnlyFromOwner ==
    (call.op = "burn" /\ call.res = "Ok") =>
        /\ call.account = PreOwner
        /\ call.events = <<TransferEvent(PreOwner, None, call.id)>>
        /\ balance_of(data, PreOwner) = Plus(balance_of(call.pre, PreOwner), -1)

\* The ids owners_token_by_index returns for owner at the indices
\* 0 .. balance_of(owner) - 1.
OwnersIndexedTokens(d, owner) ==
    [i \in 1 .. balance_of(d, owner).off |->
        owners_token_by_index(d, owner, i - 1)]

\* C32: in every reachable state of the enumerable ledger, for every account
\* o, owners_token_by_index(o, i) succeeds for 0 <= i < balance_of(o), no
\* two indices return the same id, and the ids returned are exactly the ids
\* whose owner_of is o.
C32_OwnerListIsOwnedTokens ==
    IsEnumerable(data.balance) =>
        \A o \in Accounts :
            LET toks == OwnersIndexedTokens(data, o)
                n == Len(toks)
            IN  /\ \A i \in 1 .. n : toks[i].res = "Ok"
                /\ \A i \in 1 .. n, j \in 1 .. n :
                      toks[i].id = toks[j].id => i = j
                /\ {toks[i].id : i \in 1 .. n} =
                      {id \in Ids : owner_of(data, id) = o}

\* C33: in every reachable state, a successful approve(caller, operator,
\* id, approved) changes nothing but the triple (granter, operator, id),
\* granter being the owner of id, or the caller when id is None: that triple
\* is in the approval set afterwards exactly when approved is true, every
\* other triple is as before, and the ownership map and the balances (so
\* the supply too) are as before.  mint and burn leave the approval set as
\* it was, whatever they return.
C33_ApproveTouchesOneTriple ==
    FreshLedger =>
        /\ \A caller \in Accounts, operator \in Accounts,
              id \in Ids \cup {NoId}, approved \in BOOLEAN :
              LET r == approve(data, caller, operator, id, approved)
                  granter == IF id # NoId THEN owner_of(data, id) ELSE caller
                  target == <<granter, operator, id>>
              IN  r.res = "Ok" =>
                     /\ target \in r.data.operator_approvals <=> approved
                     /\ r.data.operator_approvals \ {target} =
                           data.operator_approvals \ {target}
                     /\ r.data.token_owner = data.token_owner
                     /\ r.data.balance = data.balance
        /\ \A a \in Accounts, id \in Ids :
              /\ mint(data, a, id).data.operator_approvals =
                    data.operator_approvals
              /\ \A caller \in Accounts :
                    burn(data, caller, a, id).data.operator_approvals =
                       data.operator_approvals

\* C33 witness: a blanket approval was granted to an operator that already
\* held a specific-id approval from the same granter; both are recorded.
C33_Witness ==
    /\ call.op = "approve" /\ call.res = "Ok"
    /\ call.id = NoId /\ call.approved
    /\ \E i \in Ids :
          /\ <<call.caller, call.account, i>> \in call.pre.operator_approvals
          /\ <<call.caller, call.account, i>> \in data.operator_approvals
    /\ <<call.caller, call.account, NoId>> \notin call.pre.operator_approvals
    /\ <<call.caller, call.account, NoId>> \in data.operator_approvals

\* C34: in every reachable state the approval set holds no triple
\* (o, o, id) and no blanket triple (o, o, None).
C34_NoSelfOperator ==
    \A o \in Accounts, id \in Ids \cup {NoId} :
        <<o, o, id>> \notin data.operator_approvals

====
